---- MODULE Spec2Model ----
(***************************************************************************)
(* Model of the launcher backend: the entry store (entry_handler.rs),      *)
(* descriptor discovery and configuration loading (main.rs).               *)
(*                                                                         *)
(* A Rust string is modelled as its UTF-8 byte sequence; `chars()` is the  *)
(* UTF-8 decoder Chars.  Option<T> is modelled as a sequence of length 0   *)
(* (None) or 1 (Some).                                                     *)
(***************************************************************************)
EXTENDS Integers, Sequences, FiniteSets, TLC

(* ------------------------------ bounds --------------------------------- *)
MaxEntries == 2
MaxRecords == 3
MaxFiles == 3

(* ------------------------------ Option --------------------------------- *)
None == << >>
Some(v) == << v >>
IsSome(o) == Len(o) = 1
Unwrap(o) == o[1]

(* ------------------------------ strings -------------------------------- *)
\* "ab", "b", "a" + U+0301 (combining acute accent), "x", "c" as UTF-8
S_ab == << 97, 98 >>
S_b == << 98 >>
S_aAcute == << 97, 204, 129 >>
S_a == << 97 >>
S_z == << 122 >>
S_exec == << 120 >>
S_empty == << >>

QueryPool == { S_empty, S_a, S_b, S_ab, S_z }

SeqsUpTo(S, n) == UNION { [1..k -> S] : k \in 0..n }

\* the arguments AppEntry::new is called with: name, keywords, categories
NewArgs(name, keywords, categories) ==
    [ name |-> name, keywords |-> keywords, categories |-> categories ]

EntryArgs ==
    { NewArgs(S_ab, << >>, << S_b >>),
      NewArgs(S_ab, << S_b >>, << S_b >>),
      NewArgs(S_b, << S_ab >>, << S_b >>),
      NewArgs(S_b, << S_ab, S_b >>, << >>),
      NewArgs(S_b, << >>, << S_aAcute >>),
      NewArgs(S_aAcute, << S_b, S_aAcute >>, << S_b >>) }

\* str::chars(): decode UTF-8 (one- and two-byte sequences) into code points
RECURSIVE Chars(_)
Chars(s) ==
    IF Len(s) = 0 THEN << >>
    ELSE IF s[1] < 128 THEN << s[1] >> \o Chars(SubSeq(s, 2, Len(s)))
    ELSE << (s[1] % 32) * 64 + (s[2] % 64) >> \o Chars(SubSeq(s, 3, Len(s)))

\* str::is_ascii()
IsAscii(s) == \A i \in 1..Len(s) : s[i] < 128

\* Grapheme segmentation as used by Utf32Str::new (extended grapheme
\* clusters), over the code points Chars can produce (U+0000..U+07FF).
\* Each cluster contributes its first code point; the cluster CR LF
\* contributes LF.

\* Grapheme_Cluster_Break = Extend: the nonspacing and enclosing marks
IsExtend(c) ==
    \/ c >= 768 /\ c <= 879        \* U+0300..U+036F
    \/ c >= 1155 /\ c <= 1161      \* U+0483..U+0489
    \/ c >= 1425 /\ c <= 1469      \* U+0591..U+05BD
    \/ c = 1471                    \* U+05BF
    \/ c >= 1473 /\ c <= 1474      \* U+05C1..U+05C2
    \/ c >= 1476 /\ c <= 1477      \* U+05C4..U+05C5
    \/ c = 1479                    \* U+05C7
    \/ c >= 1552 /\ c <= 1562      \* U+0610..U+061A
    \/ c >= 1611 /\ c <= 1631      \* U+064B..U+065F
    \/ c = 1648                    \* U+0670
    \/ c >= 1750 /\ c <= 1756      \* U+06D6..U+06DC
    \/ c >= 1759 /\ c <= 1764      \* U+06DF..U+06E4
    \/ c >= 1767 /\ c <= 1768      \* U+06E7..U+06E8
    \/ c >= 1770 /\ c <= 1773      \* U+06EA..U+06ED
    \/ c = 1809                    \* U+0711
    \/ c >= 1840 /\ c <= 1866      \* U+0730..U+074A
    \/ c >= 1958 /\ c <= 1968      \* U+07A6..U+07B0
    \/ c >= 2027 /\ c <= 2035      \* U+07EB..U+07F3
    \/ c = 2045                    \* U+07FD

\* Grapheme_Cluster_Break = Control, CR or LF: always a cluster of their own
IsControl(c) ==
    \/ c <= 31                     \* U+0000..U+001F
    \/ c >= 127 /\ c <= 159        \* U+007F..U+009F
    \/ c = 173                     \* U+00AD
    \/ c = 1564                    \* U+061C

\* Grapheme_Cluster_Break = Prepend: joins the code point after it
IsPrepend(c) ==
    \/ c >= 1536 /\ c <= 1541      \* U+0600..U+0605
    \/ c = 1757                    \* U+06DD
    \/ c = 1807                    \* U+070F

\* no cluster boundary between code point p and the code point c after it
JoinsCluster(p, c) ==
    \/ p = 13 /\ c = 10
    \/ /\ ~IsControl(p)
       /\ ~IsControl(c)
       /\ (IsExtend(c) \/ IsPrepend(p))

RECURSIVE GraphemesFrom(_, _)
GraphemesFrom(cs, i) ==
    IF i > Len(cs) THEN << >>
    ELSE IF i > 1 /\ JoinsCluster(cs[i - 1], cs[i]) THEN GraphemesFrom(cs, i + 1)
    ELSE IF i < Len(cs) /\ cs[i] = 13 /\ cs[i + 1] = 10
         THEN << 10 >> \o GraphemesFrom(cs, i + 1)
    ELSE << cs[i] >> \o GraphemesFrom(cs, i + 1)

Graphemes(s) == GraphemesFrom(Chars(s), 1)

\* Utf32Str::new(str, &mut buf): an ASCII string is viewed in place and the
\* buffer is left alone; otherwise the buffer is cleared and refilled.
\* Returns the view and the buffer afterwards.
Utf32Str_new(str, buf) ==
    IF IsAscii(str) THEN [view |-> str, buf |-> buf]
    ELSE [view |-> Graphemes(str), buf |-> Graphemes(str)]

(* ------------------------------ matcher -------------------------------- *)
\* Leftmost in-order occurrence of needle in hay starting at position from;
\* the sequence of matched positions, or None when there is none.
RECURSIVE MatchFrom(_, _, _)
MatchFrom(needle, hay, from) ==
    IF Len(needle) = 0 THEN Some(<< >>)
    ELSE IF from > Len(hay) THEN None
    ELSE IF hay[from] = needle[1]
         THEN LET rest == MatchFrom(SubSeq(needle, 2, Len(needle)), hay, from + 1)
              IN IF IsSome(rest) THEN Some(<< from >> \o Unwrap(rest)) ELSE None
         ELSE MatchFrom(needle, hay, from + 1)

\* Pattern::score(haystack, matcher): None when the pattern does not match,
\* else a score that grows with the number of matched characters, rewards a
\* match at the start and penalises the gaps inside the match.
PatternScore(pattern, hay) ==
    LET m == MatchFrom(pattern, hay, 1)
    IN IF ~IsSome(m) THEN None
       ELSE IF Len(pattern) = 0 THEN Some(0)
       ELSE LET pos == Unwrap(m)
                n == Len(pos)
                span == pos[n] - pos[1] + 1
            IN Some(16 * n + (IF pos[1] = 1 THEN 8 ELSE 0) - (span - n))

(* ------------------------------ AppEntry ------------------------------- *)
\* impl Default for AppEntry
AppEntry_default ==
    [ name |-> S_empty, exec |-> S_empty,
      keywords |-> << >>, categories |-> << >>,
      name_buffer |-> << >>, keywords_buffers |-> << >>,
      categories_buffers |-> << >>,
      score |-> None ]

\* AppEntry::new
AppEntry_new(name, exec, keywords, categories) ==
    [ name |-> name, exec |-> exec,
      keywords |-> keywords, categories |-> categories,
      name_buffer |-> Chars(name),
      keywords_buffers |-> [i \in 1..Len(keywords) |-> Chars(keywords[i])],
      categories_buffers |-> [i \in 1..Len(categories) |-> Chars(categories[i])],
      score |-> None ]

Min(a, b) == IF a < b THEN a ELSE b

\* AppEntry::name_utf32: the view handed to the matcher and the entry after
\* the call (the buffer is lent mutably)
name_utf32(self) ==
    LET u == Utf32Str_new(self.name, self.name_buffer)
    IN [view |-> u.view, self |-> [self EXCEPT !.name_buffer = u.buf]]

\* AppEntry::keywords_utf32: keywords zipped with their buffers, so the
\* shorter of the two decides how many views there are
keywords_utf32(self) ==
    LET n == Min(Len(self.keywords), Len(self.keywords_buffers))
        u == [i \in 1..n |-> Utf32Str_new(self.keywords[i], self.keywords_buffers[i])]
    IN [views |-> [i \in 1..n |-> u[i].view],
        self |-> [self EXCEPT !.keywords_buffers =
                     [i \in 1..Len(self.keywords_buffers) |->
                         IF i <= n THEN u[i].buf ELSE self.keywords_buffers[i]]]]

\* AppEntry::categories_utf32: as keywords_utf32, over the categories
categories_utf32(self) ==
    LET n == Min(Len(self.categories), Len(self.categories_buffers))
        u == [i \in 1..n |-> Utf32Str_new(self.categories[i], self.categories_buffers[i])]
    IN [views |-> [i \in 1..n |-> u[i].view],
        self |-> [self EXCEPT !.categories_buffers =
                     [i \in 1..Len(self.categories_buffers) |->
                         IF i <= n THEN u[i].buf ELSE self.categories_buffers[i]]]]

\* the `for keyword in self.keywords_utf32()` loop of compute_score
RECURSIVE AddKeywordScores(_, _, _, _)
AddKeywordScores(total_score, pattern, views, i) ==
    IF i > Len(views) THEN total_score
    ELSE LET score == PatternScore(pattern, views[i])
         IN AddKeywordScores(
                IF IsSome(score) THEN total_score + Unwrap(score) ELSE total_score,
                pattern, views, i + 1)

\* Mutant: the name match is not weighted
compute_score_unweighted(self, pattern) ==
    LET nv == name_utf32(self)
        score == PatternScore(pattern, nv.view)
        t1 == IF IsSome(score) THEN Unwrap(score) ELSE 0
        kv == keywords_utf32(nv.self)
    IN [kv.self EXCEPT !.score = Some(AddKeywordScores(t1, pattern, kv.views, 1))]

\* Mutant: the total starts from the score of the previous call
compute_score_accumulate(self, pattern) ==
    LET nv == name_utf32(self)
        score == PatternScore(pattern, nv.view)
        t0 == IF IsSome(self.score) THEN Unwrap(self.score) ELSE 0
        t1 == IF IsSome(score) THEN t0 + Unwrap(score) * 5 ELSE t0
        kv == keywords_utf32(nv.self)
    IN [kv.self EXCEPT !.score = Some(AddKeywordScores(t1, pattern, kv.views, 1))]

\* AppEntry::compute_score.  The code sums in f64 and casts to i64; the
\* addends are u32 scores, so the sum is exact and integers model it.
compute_score(self, pattern) ==
    LET nv == name_utf32(self)
        score == PatternScore(pattern, nv.view)
        t1 == IF IsSome(score) THEN Unwrap(score) * 5 ELSE 0
        kv == keywords_utf32(nv.self)
    IN [kv.self EXCEPT !.score = Some(AddKeywordScores(t1, pattern, kv.views, 1))]

(* ------------------------ parse_desktop_entries ------------------------ *)
\* A parsed descriptor (DesktopFile): entry type, default name, the
\* application's Exec and Keywords
DesktopFile(entry_type, name, exec, keywords) ==
    [ entry_type |-> entry_type, name |-> name, exec |-> exec, keywords |-> keywords ]

RecordPool ==
    { DesktopFile("Application", S_ab, Some(S_exec), << S_b >>),
      DesktopFile("Application", S_b, None, << >>),
      DesktopFile("Link", S_ab, None, << >>),
      DesktopFile("Application", S_aAcute, Some(S_exec), << >>),
      DesktopFile("Application", S_b, Some(S_exec), << S_ab, S_b >>) }

\* Mutant: a missing Exec becomes an empty command instead of dropping the record
filter_map_entry_keep_noexec(entry) ==
    IF entry.entry_type = "Application"
    THEN Some([AppEntry_default EXCEPT
                  !.name = entry.name,
                  !.exec = IF IsSome(entry.exec) THEN Unwrap(entry.exec) ELSE S_empty])
    ELSE None

\* the closure given to filter_map in parse_desktop_entries
filter_map_entry(entry) ==
    IF entry.entry_type = "Application"
    THEN IF IsSome(entry.exec)
         THEN Some([AppEntry_default EXCEPT !.name = entry.name,
                                            !.exec = Unwrap(entry.exec)])
         ELSE None
    ELSE None

\* parse_desktop_entries
RECURSIVE parse_desktop_entries(_)
parse_desktop_entries(desktop_entries) ==
    IF Len(desktop_entries) = 0 THEN << >>
    ELSE LET e == filter_map_entry(Head(desktop_entries))
             rest == parse_desktop_entries(Tail(desktop_entries))
         IN IF IsSome(e) THEN << Unwrap(e) >> \o rest ELSE rest

(* ------------------------------- ranking ------------------------------- *)
\* the pattern built from the query text
Pattern_parse(q) == Chars(q)

\* every entry scored against the pattern
ScoreAll(es, pattern) == [i \in 1..Len(es) |-> compute_score(es[i], pattern)]

\* Mutant: an entry is placed before the entries it ties with
RECURSIVE InsertByScoreUnstable(_, _, _)
InsertByScoreUnstable(res, i, es) ==
    IF Len(res) = 0 THEN << i >>
    ELSE IF Unwrap(es[Head(res)].score) > Unwrap(es[i].score)
         THEN << Head(res) >> \o InsertByScoreUnstable(Tail(res), i, es)
         ELSE << i >> \o res

\* entry i placed into the ordered result list: after every entry whose
\* score is at least its own
RECURSIVE InsertByScore(_, _, _)
InsertByScore(res, i, es) ==
    IF Len(res) = 0 THEN << i >>
    ELSE IF Unwrap(es[Head(res)].score) >= Unwrap(es[i].score)
         THEN << Head(res) >> \o InsertByScore(Tail(res), i, es)
         ELSE << i >> \o res

\* the result list: the entries that have a score, best first
RECURSIVE SortResults(_, _)
SortResults(es, n) ==
    IF n = 0 THEN << >>
    ELSE IF IsSome(es[n].score)
         THEN InsertByScore(SortResults(es, n - 1), n, es)
         ELSE SortResults(es, n - 1)

(* ------------------------------- state --------------------------------- *)
VARIABLES
    entries,          \* LauncherState.entries
    query,            \* LauncherState.query
    results,          \* LauncherState.results, as indices into entries
    records,          \* the descriptors last given to parse_desktop_entries
    built,            \* how the store was built: "none", "new" or "parse"
    ranked,           \* a ranking pass over the store has completed
    rerun,            \* the last pass repeated the query of the pass before it
    pass,             \* "idle", or "scoring" while entries are scored one by one
    pending,          \* entries the running pass has not scored yet
    dir,              \* the directory given to get_desktop_entries
    fpos,             \* position of the loop over the directory
    desktop_entries,  \* descriptors collected by get_desktop_entries
    disc,             \* progress and outcome of get_desktop_entries
    cfgIn,            \* argument, environment and files seen by load_config
    cfgOut            \* outcome of load_config

launcherVars == << entries, query, results, records, built, ranked, rerun, pass, pending >>
discVars == << dir, fpos, desktop_entries, disc >>
cfgVars == << cfgIn, cfgOut >>
vars == << entries, query, results, records, built, ranked, rerun, pass, pending,
           dir, fpos, desktop_entries, disc, cfgIn, cfgOut >>

InitLauncher ==
    /\ entries = << >>
    /\ query = S_empty
    /\ results = << >>
    /\ records = << >>
    /\ built = "none"
    /\ ranked = FALSE
    /\ rerun = FALSE
    /\ pass = "idle"
    /\ pending = {}

NoDir == [readable |-> TRUE, files |-> << >>]

DiscUnused ==
    /\ dir = NoDir
    /\ fpos = 0
    /\ desktop_entries = << >>
    /\ disc = "unused"

NoCfgIn == [env |-> "home", arg |-> "none", kind |-> "missing", metaFails |-> FALSE,
            content |-> "ok", dconf |-> "missing", defconf |-> "missing"]

CfgUnused ==
    /\ cfgIn = NoCfgIn
    /\ cfgOut = None

(* ------------------------- entry store actions ------------------------- *)
\* the caller builds an entry with AppEntry::new and pushes it onto the store
NewEntry(name, exec, keywords, categories) ==
    /\ built \in {"none", "new"}
    /\ ~ranked
    /\ pass = "idle"
    /\ Len(entries) < MaxEntries
    /\ entries' = Append(entries, AppEntry_new(name, exec, keywords, categories))
    /\ built' = "new"
    /\ UNCHANGED << query, results, records, ranked, rerun, pass, pending >>
    /\ UNCHANGED << discVars, cfgVars >>

\* the store is built from parsed descriptors
ParseDesktopEntries(desktop_files) ==
    /\ built = "none"
    /\ ~ranked
    /\ pass = "idle"
    /\ entries' = parse_desktop_entries(desktop_files)
    /\ records' = desktop_files
    /\ built' = "parse"
    /\ UNCHANGED << query, results, ranked, rerun, pass, pending >>
    /\ UNCHANGED << discVars, cfgVars >>

\* one ranking pass: every entry is scored against the query, then the
\* scored entries are ordered best first
Rank(q) ==
    /\ pass = "idle"
    /\ query' = q
    /\ entries' = ScoreAll(entries, Pattern_parse(q))
    /\ results' = SortResults(entries', Len(entries'))
    /\ ranked' = TRUE
    /\ rerun' = (ranked /\ q = query)
    /\ UNCHANGED << records, built, pass, pending >>
    /\ UNCHANGED << discVars, cfgVars >>

\* the same pass with the entries scored one at a time, in any order
BeginRank(q) ==
    /\ pass = "idle"
    /\ query' = q
    /\ pass' = "scoring"
    /\ pending' = 1..Len(entries)
    /\ rerun' = (ranked /\ q = query)
    /\ ranked' = FALSE
    /\ UNCHANGED << entries, results, records, built >>
    /\ UNCHANGED << discVars, cfgVars >>

ScoreEntry(i) ==
    /\ pass = "scoring"
    /\ i \in pending
    /\ entries' = [entries EXCEPT ![i] = compute_score(entries[i], Pattern_parse(query))]
    /\ pending' = pending \ {i}
    /\ UNCHANGED << query, results, records, built, ranked, rerun, pass >>
    /\ UNCHANGED << discVars, cfgVars >>

FinishRank ==
    /\ pass = "scoring"
    /\ pending = {}
    /\ results' = SortResults(entries, Len(entries))
    /\ ranked' = TRUE
    /\ pass' = "idle"
    /\ UNCHANGED << entries, query, records, built, rerun, pending >>
    /\ UNCHANGED << discVars, cfgVars >>

\* a caller takes the name view of an entry (public AppEntry::name_utf32)
NameUtf32(i) ==
    /\ i \in 1..Len(entries)
    /\ entries' = [entries EXCEPT ![i] = name_utf32(entries[i]).self]
    /\ UNCHANGED << query, results, records, built, ranked, rerun, pass, pending >>
    /\ UNCHANGED << discVars, cfgVars >>

\* a caller takes the keyword views of an entry (public AppEntry::keywords_utf32)
KeywordsUtf32(i) ==
    /\ i \in 1..Len(entries)
    /\ entries' = [entries EXCEPT ![i] = keywords_utf32(entries[i]).self]
    /\ UNCHANGED << query, results, records, built, ranked, rerun, pass, pending >>
    /\ UNCHANGED << discVars, cfgVars >>

\* a caller takes the category views of an entry (public AppEntry::categories_utf32)
CategoriesUtf32(i) ==
    /\ i \in 1..Len(entries)
    /\ entries' = [entries EXCEPT ![i] = categories_utf32(entries[i]).self]
    /\ UNCHANGED << query, results, records, built, ranked, rerun, pass, pending >>
    /\ UNCHANGED << discVars, cfgVars >>

ViewStep ==
    \/ \E i \in 1..MaxEntries + MaxRecords : NameUtf32(i)
    \/ \E i \in 1..MaxEntries + MaxRecords : KeywordsUtf32(i)
    \/ \E i \in 1..MaxEntries + MaxRecords : CategoriesUtf32(i)

BuildStep ==
    \/ \E a \in EntryArgs : NewEntry(a.name, S_exec, a.keywords, a.categories)
    \/ \E desktop_files \in SeqsUpTo(RecordPool, MaxRecords) :
           ParseDesktopEntries(desktop_files)

Init == InitLauncher /\ DiscUnused /\ CfgUnused

Next ==
    \/ BuildStep
    \/ ViewStep
    \/ \E q \in QueryPool : Rank(q)

Spec == Init /\ [][Next]_vars

NextPar ==
    \/ BuildStep
    \/ ViewStep
    \/ \E q \in QueryPool : BeginRank(q)
    \/ \E i \in 1..MaxEntries + MaxRecords : ScoreEntry(i)
    \/ FinishRank

SpecPar == Init /\ [][NextPar]_vars

(* ------------------------- get_desktop_entries ------------------------- *)
\* What the loop meets in the directory, one kind per directory entry:
\*   "entry_error" the directory entry itself cannot be read (file.unwrap())
\*   "other"       the extension is not "desktop"
\*   "noopen"      File::open fails
\*   "noread"      read_to_string fails
\*   "noparse"     parse fails
\*   "good"        a readable, well-formed descriptor
FileKinds == { "entry_error", "other", "noopen", "noread", "noparse", "good" }

Directories ==
    { [readable |-> r, files |-> f] : r \in BOOLEAN, f \in SeqsUpTo(FileKinds, MaxFiles) }

InitDisc ==
    /\ InitLauncher
    /\ CfgUnused
    /\ dir \in Directories
    /\ fpos = 0
    /\ desktop_entries = << >>
    /\ disc = "start"

\* fs::read_dir(directory).unwrap()
ReadDir ==
    /\ disc = "start"
    /\ IF dir.readable
       THEN disc' = "loop" /\ fpos' = 1
       ELSE disc' = "panic" /\ fpos' = fpos
    /\ UNCHANGED << dir, desktop_entries >>
    /\ UNCHANGED << launcherVars, cfgVars >>

\* one iteration of `for file in files`
VisitFile ==
    /\ disc = "loop"
    /\ fpos <= Len(dir.files)
    /\ LET kind == dir.files[fpos]
       IN CASE kind = "entry_error" ->
                 disc' = "panic" /\ desktop_entries' = << >> /\ fpos' = fpos
            [] kind = "other" ->
                 disc' = "loop" /\ desktop_entries' = desktop_entries /\ fpos' = fpos + 1
            [] kind = "noopen" ->
                 disc' = "err" /\ desktop_entries' = << >> /\ fpos' = fpos
            [] kind = "noread" ->
                 disc' = "err" /\ desktop_entries' = << >> /\ fpos' = fpos
            [] kind = "noparse" ->
                 disc' = "panic" /\ desktop_entries' = << >> /\ fpos' = fpos
            [] kind = "good" ->
                 /\ disc' = "loop"
                 /\ desktop_entries' = Append(desktop_entries, fpos)
                 /\ fpos' = fpos + 1
    /\ UNCHANGED dir
    /\ UNCHANGED << launcherVars, cfgVars >>

\* Ok(desktop_entries)
ReturnOk ==
    /\ disc = "loop"
    /\ fpos > Len(dir.files)
    /\ disc' = "ok"
    /\ UNCHANGED << dir, fpos, desktop_entries >>
    /\ UNCHANGED << launcherVars, cfgVars >>

NextDisc == ReadDir \/ VisitFile \/ ReturnOk

SpecDisc == InitDisc /\ [][NextDisc]_vars

(* ------------------------------ load_config ---------------------------- *)
\* env:       which of XDG_CONFIG_HOME ("xdg"), HOME ("home") is set, or "none"
\* arg:       "some" when a path argument is given, else "none"
\* kind:      what is at the starting path (the argument, or the default
\*            directory when there is no argument): "missing", "file", "dir",
\*            or "other" (exists, neither file nor directory)
\* metaFails: path.metadata() fails although path.exists() held
\* content:   the starting path read as a file: "ok", "unreadable", "badtoml"
\* dconf:     config.toml inside the directory given as argument
\* defconf:   config.toml inside the default directory
FileStates == { "missing", "ok", "unreadable", "badtoml" }

CfgInputs ==
    { c \in [ env : {"xdg", "home", "none"}, arg : {"some", "none"},
              kind : {"missing", "file", "dir", "other"}, metaFails : BOOLEAN,
              content : {"ok", "unreadable", "badtoml"},
              dconf : FileStates, defconf : FileStates ] :
        \* fields that describe no file of this filesystem are pinned
        /\ (c.kind \notin {"file", "other"} => c.content = "ok")
        /\ (~(c.arg = "some" /\ c.kind = "dir") => c.dconf = "missing")
        \* without an argument the starting path is the default directory
        /\ (c.arg = "none" /\ c.kind # "dir" => c.defconf = "missing")
        /\ (c.kind = "missing" => ~c.metaFails) }

InitCfg ==
    /\ InitLauncher
    /\ DiscUnused
    /\ cfgIn \in CfgInputs
    /\ cfgOut = None

\* fs::read_to_string(path)? then toml::from_str(..).unwrap()
ReadConfigFile(state, from) ==
    CASE state = "ok" -> [res |-> "Ok", from |-> from]
      [] state = "unreadable" -> [res |-> "Err", from |-> from]
      [] state = "badtoml" -> [res |-> "Panic", from |-> from]

\* load_config: the result, and the file the returned config was read from
load_config(c) ==
    IF c.env = "none" THEN [res |-> "Panic", from |-> "env"]
    ELSE IF c.kind # "missing"
    THEN IF c.metaFails THEN [res |-> "Err", from |-> "metadata"]
         ELSE IF c.kind = "file"
              THEN ReadConfigFile(c.content, "path")
         ELSE IF c.kind = "dir"
              THEN LET st == IF c.arg = "some" THEN c.dconf ELSE c.defconf
                       from == IF c.arg = "some" THEN "path/config.toml"
                               ELSE "default/config.toml"
                   IN IF st = "missing" THEN [res |-> "Ok", from |-> "builtin"]
                      ELSE ReadConfigFile(st, from)
         ELSE ReadConfigFile(c.content, "path")
    ELSE IF c.defconf = "missing" THEN [res |-> "Ok", from |-> "builtin"]
         ELSE ReadConfigFile(c.defconf, "default/config.toml")

LoadConfig ==
    /\ cfgOut = None
    /\ cfgOut' = Some(load_config(cfgIn))
    /\ UNCHANGED cfgIn
    /\ UNCHANGED << launcherVars, discVars >>

NextCfg == LoadConfig

SpecCfg == InitCfg /\ [][NextCfg]_vars

(* ------------------------------ properties ----------------------------- *)
\* the text of a string as the matcher is given it
MatcherText(s) == IF IsAscii(s) THEN s ELSE Graphemes(s)

\* the fuzzy score of string s for query q, 0 when q does not match s
ScoreOrZero(q, s) ==
    LET r == PatternScore(Pattern_parse(q), MatcherText(s))
    IN IF IsSome(r) THEN Unwrap(r) ELSE 0

Matches(q, s) == IsSome(PatternScore(Pattern_parse(q), MatcherText(s)))

RECURSIVE KeywordSum(_, _, _)
KeywordSum(q, kws, n) ==
    IF n = 0 THEN 0 ELSE KeywordSum(q, kws, n - 1) + ScoreOrZero(q, kws[n])

\* 5 times the name's fuzzy score plus the keywords' fuzzy scores
Aggregate(e, q) == 5 * ScoreOrZero(q, e.name) + KeywordSum(q, e.keywords, Len(e.keywords))

NoMatch(e, q) ==
    /\ ~Matches(q, e.name)
    /\ \A k \in 1..Len(e.keywords) : ~Matches(q, e.keywords[k])

Survives(r) == r.entry_type = "Application" /\ IsSome(r.exec)

InResults(i) == \E a \in 1..Len(results) : results[a] = i

\* C1: the store built by parse_desktop_entries holds only entries that come,
\* in order, from application records with an executable; the other records
\* are dropped, so there are at most as many entries as records.
C1_OnlyLaunchableRecords ==
    built = "parse" =>
        /\ Len(entries) <= Len(records)
        /\ \E f \in [1..Len(entries) -> 1..Len(records)] :
              /\ \A k \in 1..Len(entries) :
                    /\ Survives(records[f[k]])
                    /\ entries[k].name = records[f[k]].name
                    /\ entries[k].exec = Unwrap(records[f[k]].exec)
              /\ \A k, l \in 1..Len(entries) : k < l => f[k] < f[l]

C1_Witness ==
    /\ built = "parse"
    /\ Len(entries) >= 1
    /\ \E i, j \in 1..Len(records) :
          /\ records[i].entry_type = "Link"
          /\ records[j].entry_type = "Application" /\ ~IsSome(records[j].exec)

\* C2: after a ranking pass with a non-empty query, an entry whose name and
\* keywords all fail to match the query has no score and is not in the results.
C2_UnmatchedHasNoScore ==
    (ranked /\ query # S_empty) =>
        \A i \in 1..Len(entries) :
            NoMatch(entries[i], query) => (entries[i].score = None /\ ~InResults(i))

\* C3: the score stored on an entry is 5 times the fuzzy score of its name
\* plus the fuzzy scores of its matching keywords; so an entry matched by
\* its name alone scores 5 times an entry matched by one keyword alone with
\* the same fuzzy score.
C3_WeightedSum ==
    ranked =>
        /\ \A i \in 1..Len(entries) : entries[i].score = Some(Aggregate(entries[i], query))
        /\ \A i, j \in 1..Len(entries) :
              ( /\ Matches(query, entries[i].name)
                /\ \A k \in 1..Len(entries[i].keywords) : ~Matches(query, entries[i].keywords[k])
                /\ ~Matches(query, entries[j].name)
                /\ \E k \in 1..Len(entries[j].keywords) :
                      /\ ScoreOrZero(query, entries[j].keywords[k])
                            = ScoreOrZero(query, entries[i].name)
                      /\ \A l \in 1..Len(entries[j].keywords) :
                            l # k => ~Matches(query, entries[j].keywords[l]) )
              => Unwrap(entries[i].score) = 5 * Unwrap(entries[j].score)

C3_Witness ==
    /\ ranked
    /\ query = S_a
    /\ Len(entries) = 2
    /\ entries[1].name = S_ab /\ entries[1].keywords = << >>
    /\ entries[2].name = S_b /\ entries[2].keywords = << S_ab >>
    /\ entries[1].score = Some(120)
    /\ entries[2].score = Some(24)

\* C4: after a ranking pass with a non-empty query the results are in
\* descending order of score, and results with equal scores are in store order.
C4_ResultsOrdered ==
    (ranked /\ query # S_empty) =>
        \A a, b \in 1..Len(results) :
            a < b =>
                \/ Unwrap(entries[results[a]].score) > Unwrap(entries[results[b]].score)
                \/ /\ Unwrap(entries[results[a]].score) = Unwrap(entries[results[b]].score)
                   /\ results[a] < results[b]

C4_Witness ==
    /\ ranked
    /\ query # S_empty
    /\ results = << 1, 2 >>
    /\ entries[1].keywords # entries[2].keywords
    /\ entries[1].score = entries[2].score
    /\ Unwrap(entries[1].score) > 0

\* C5: every application record with an executable gets an entry that carries
\* the record's keywords in order, each with its decoded buffer, so a query
\* that matches a keyword of the record gives the entry a match.
C5_ParseKeepsKeywords ==
    built = "parse" =>
        LET kept == SelectSeq(records, Survives)
        IN /\ Len(entries) = Len(kept)
           /\ \A k \in 1..Len(entries) :
                 /\ entries[k].keywords = kept[k].keywords
                 /\ Len(entries[k].keywords_buffers) = Len(kept[k].keywords)
                 /\ \A i \in 1..Len(kept[k].keywords) :
                       entries[k].keywords_buffers[i] = Chars(kept[k].keywords[i])
                 /\ (ranked /\ query # S_empty
                       /\ \E i \in 1..Len(kept[k].keywords) : Matches(query, kept[k].keywords[i]))
                    => Unwrap(entries[k].score) > 0

\* C6: for every entry of the store the name buffer is the decoded name and
\* the keyword buffers are the decoded keywords, one per keyword.
C6_BuffersInSync ==
    \A i \in 1..Len(entries) :
        /\ entries[i].name_buffer = Chars(entries[i].name)
        /\ Len(entries[i].keywords_buffers) = Len(entries[i].keywords)
        /\ \A k \in 1..Len(entries[i].keywords) :
              entries[i].keywords_buffers[k] = Chars(entries[i].keywords[k])

\* C7: a ranking pass that repeats the query of the pass before it, on the
\* same store, leaves every entry's score and the result sequence as they were.
C7_RankIdempotent ==
    [][ (ranked /\ ranked' /\ query' = query) =>
            /\ results' = results
            /\ Len(entries') = Len(entries)
            /\ \A i \in 1..Len(entries) : entries'[i].score = entries[i].score ]_vars

C7_Witness ==
    /\ rerun
    /\ ranked
    /\ query # S_empty
    /\ Len(entries) = 2
    /\ Len(results) = 2
    /\ \E i \in 1..Len(entries) : Unwrap(entries[i].score) > 0

\* C8: while the entries are scored one at a time in any order, every entry
\* already scored carries the score its own text gives for the query, and
\* scoring one entry changes no other entry.
C8_ScoringIndependent ==
    /\ [](pass = "scoring" =>
            \A i \in (1..Len(entries)) \ pending :
                entries[i].score = Some(Aggregate(entries[i], query)))
    /\ [][ (pass = "scoring" /\ pass' = "scoring" /\ pending' # pending) =>
              \A j \in 1..Len(entries) :
                  j \notin (pending \ pending') => entries'[j] = entries[j] ]_vars

C8_Witness ==
    /\ pass = "scoring"
    /\ Len(entries) = 2
    /\ pending = {1}
    /\ IsSome(entries[1].score)
    /\ entries[1].score # Some(Aggregate(entries[1], query))
    /\ Unwrap(entries[2].score) > 0

\* C9: a discovery pass over a readable directory never aborts: files that
\* cannot be opened, read or parsed are skipped and the descriptors of all
\* good files are returned.
C9_BadFilesSkipped ==
    ( /\ disc \in {"ok", "err", "panic"}
      /\ dir.readable
      /\ \A i \in 1..Len(dir.files) : dir.files[i] # "entry_error" )
    => /\ disc = "ok"
       /\ Len(desktop_entries) = Cardinality({ i \in 1..Len(dir.files) : dir.files[i] = "good" })
       /\ \A k \in 1..Len(desktop_entries) : dir.files[desktop_entries[k]] = "good"

\* the step of the fallback chain whose file is the first that can be loaded
FirstLoadable(c) ==
    IF c.arg = "some" /\ c.kind = "file" /\ c.content = "ok" THEN "path"
    ELSE IF c.arg = "some" /\ c.kind = "dir" /\ c.dconf = "ok" THEN "path/config.toml"
    ELSE IF c.defconf = "ok" THEN "default/config.toml"
    ELSE "builtin"

\* C10: with HOME or XDG_CONFIG_HOME set, load_config returns a config, taken
\* from the first of: the given file, config.toml in the given directory,
\* config.toml in the default location, the built-in default.
C10_FallbackChain ==
    (IsSome(cfgOut) /\ cfgIn.env # "none") =>
        /\ Unwrap(cfgOut).res = "Ok"
        /\ (cfgIn.arg = "some" \/ cfgIn.kind \in {"dir", "missing"})
              => Unwrap(cfgOut).from = FirstLoadable(cfgIn)

====
